---- MODULE Spec2Model ----
(***************************************************************************)
(* Model of places_search.py: the PlacesSearcher client (field mask, cost  *)
(* estimate, pagination loop, CSV export) and the main() run around it.    *)
(*                                                                         *)
(* Conventions                                                             *)
(*  - An optional Python value (None or a value) is a sequence of length   *)
(*    at most one: None is << >>, the value v is <<v>>.                    *)
(*  - A Python dict is a function whose DOMAIN is the set of keys present. *)
(*  - A Python str that the program takes apart (the field mask) is a      *)
(*    sequence of tokens; every other str is a TLA+ string.                *)
(*  - Prices are integer thousandths of a dollar (0.017 USD is 17).        *)
(***************************************************************************)
EXTENDS Integers, Sequences, FiniteSets, TLC

VARIABLES
    pc,               \* position of the run
    api_key,          \* os.getenv('GOOGLE_MAPS_API_KEY'): optional string
    args,             \* argparse namespace (lat, lng, radius, category, output, data_level, debug)
    searcher,         \* optional PlacesSearcher object
    cost_per_request, \* optional result of calculate_request_cost()
    all_places,       \* search_nearby local / main local
    next_page_token,  \* search_nearby local: optional string
    request_count,    \* search_nearby local
    requests,         \* network: payloads posted so far, in order
    responses,        \* network: outcome of every post so far, in order
    csvfile,          \* output file: optional [header, rows, closed]
    stdout,           \* tags of the messages printed so far
    total_cost,       \* main local: optional cost_per_request * request_count
    raised,           \* optional name of an exception that escaped
    exit_status       \* optional process exit status

vars == <<pc, api_key, args, searcher, cost_per_request, all_places,
          next_page_token, request_count, requests, responses, csvfile,
          stdout, total_cost, raised, exit_status>>

----------------------------------------------------------------------------
(* Bounds of the model                                                     *)

\* Largest number of requests one search_nearby call is let to issue.
MaxRequests == 3

\* Longest record list handed to save_to_csv by a direct caller.
MaxPlaces == 2

----------------------------------------------------------------------------
(* Python helpers                                                          *)

None == << >>

Some(v) == <<v>>

\* Python truthiness of an optional string: None and "" are falsy.
Truthy(o) == o # None /\ o[1] # ""

\* dict.get(key, default)
get(d, key, default) == IF key \in DOMAIN d THEN d[key] ELSE default

\* dict.get(key): None when the key is absent
get_opt(d, key) == IF key \in DOMAIN d THEN Some(d[key]) ELSE None

RECURSIVE SeqSum(_)
SeqSum(s) == IF s = << >> THEN 0 ELSE Head(s) + SeqSum(Tail(s))

\* sep.join(parts) on token sequences: the parts with one sep token between.
RECURSIVE join(_, _)
join(sep, parts) ==
    IF parts = << >> THEN << >>
    ELSE IF Len(parts) = 1 THEN Head(parts)
    ELSE Head(parts) \o <<sep>> \o join(sep, Tail(parts))

\* s.split(sep) on a token sequence: the runs of tokens between sep tokens.
RECURSIVE split_from(_, _, _)
split_from(s, sep, cur) ==
    IF s = << >> THEN <<cur>>
    ELSE IF Head(s) = sep THEN <<cur>> \o split_from(Tail(s), sep, << >>)
    ELSE split_from(Tail(s), sep, Append(cur, Head(s)))

split(s, sep) == split_from(s, sep, << >>)

\* f.replace(old, ""): the tokens of f other than old, concatenated to a string.
RECURSIVE replace_empty(_, _)
replace_empty(f, old) ==
    IF f = << >> THEN ""
    ELSE IF Head(f) = old THEN replace_empty(Tail(f), old)
    ELSE Head(f) \o replace_empty(Tail(f), old)

\* ", ".join(list of str) as a string
RECURSIVE str_join(_, _)
str_join(sep, parts) ==
    IF parts = << >> THEN ""
    ELSE IF Len(parts) = 1 THEN Head(parts)
    ELSE Head(parts) \o sep \o str_join(sep, Tail(parts))

----------------------------------------------------------------------------
(* Price table                                                             *)

FIELD_COSTS ==
    [ id |-> 0, displayName |-> 0, formattedAddress |-> 0, location |-> 0,
      types |-> 0, primaryType |-> 0, primaryTypeDisplayName |-> 0,
      shortFormattedAddress |-> 0, googleMapsUri |-> 0,
      nationalPhoneNumber |-> 5, internationalPhoneNumber |-> 5, rating |-> 5,
      userRatingCount |-> 5, businessStatus |-> 5, priceLevel |-> 5,
      websiteUri |-> 5, regularOpeningHours |-> 5, utcOffsetMinutes |-> 5,
      currentOpeningHours |-> 7, currentSecondaryOpeningHours |-> 7,
      regularSecondaryOpeningHours |-> 7, editorialSummary |-> 7,
      reviews |-> 7, photos |-> 7 ]

BASE_NEARBY_SEARCH_COST == 17

----------------------------------------------------------------------------
(* PlacesSearcher: construction, field mask, cost                          *)

\* "places.<name>" as the two tokens "places." and "<name>"
P(name) == <<"places.", name>>

\* The list `fields` of _get_field_mask, before it is joined.
mask_fields(data_level) ==
    IF data_level = "id_only" THEN <<P("id"), P("displayName")>>
    ELSE IF data_level = "basic" THEN
        <<P("id"), P("displayName"), P("formattedAddress"), P("location"),
          P("types"), P("primaryType"), P("googleMapsUri")>>
    ELSE IF data_level = "advanced" THEN
        <<P("id"), P("displayName"), P("formattedAddress"), P("location"),
          P("types"), P("primaryType"), P("googleMapsUri"), P("rating"),
          P("userRatingCount"), P("nationalPhoneNumber"),
          P("internationalPhoneNumber"), P("websiteUri"), P("businessStatus")>>
    ELSE <<P("id"), P("displayName")>>

get_field_mask(data_level) == join(",", mask_fields(data_level))

PlacesSearcher(key, data_level, debug) ==
    [ api_key |-> key,
      data_level |-> data_level,
      debug |-> debug,
      base_url |-> "https://places.googleapis.com/v1/places:searchNearby",
      headers |-> ("Content-Type" :> <<"application/json">>)
                  @@ ("X-Goog-Api-Key" :> <<key>>)
                  @@ ("X-Goog-FieldMask" :> get_field_mask(data_level)) ]

\* Variant of parsed_fields that keeps the "places." prefix on every name.
parsed_fields_unstripped(field_mask) ==
    LET parts == split(field_mask, ",")
    IN  [i \in 1..Len(parts) |-> replace_empty(parts[i], "")]

\* fields = [f.replace("places.", "") for f in field_mask.split(",")]
parsed_fields(field_mask) ==
    LET parts == split(field_mask, ",")
    IN  [i \in 1..Len(parts) |-> replace_empty(parts[i], "places.")]

calculate_request_cost(self) ==
    LET fields == parsed_fields(self.headers["X-Goog-FieldMask"])
    IN  BASE_NEARBY_SEARCH_COST
        + SeqSum([i \in 1..Len(fields) |->
                    IF fields[i] \in DOMAIN FIELD_COSTS
                    THEN FIELD_COSTS[fields[i]] ELSE 0])

----------------------------------------------------------------------------
(* PlacesSearcher.search_nearby                                            *)

\* Python truthiness of an optional list: None and [] are falsy.
ListTruthy(o) == o # None /\ o[1] # << >>

maxResultCount == 20

timeout == 30

\* Variant of build_payload that never sends the page token.
build_payload_first_page(latitude, longitude, radius, include_types, page_token) ==
    ("locationRestriction" :>
        [circle |-> [center |-> [latitude |-> latitude, longitude |-> longitude],
                     radius |-> radius]])
    @@ ("maxResultCount" :> maxResultCount)
    @@ (IF ListTruthy(include_types)
        THEN ("includedTypes" :> include_types[1]) ELSE << >>)
    @@ ("rankPreference" :> "DISTANCE")

\* The payload built at the top of every loop iteration.
build_payload(latitude, longitude, radius, include_types, page_token) ==
    ("locationRestriction" :>
        [circle |-> [center |-> [latitude |-> latitude, longitude |-> longitude],
                     radius |-> radius]])
    @@ ("maxResultCount" :> maxResultCount)
    @@ (IF ListTruthy(include_types)
        THEN ("includedTypes" :> include_types[1]) ELSE << >>)
    @@ ("rankPreference" :> "DISTANCE")
    @@ (IF Truthy(page_token) THEN ("pageToken" :> page_token[1]) ELSE << >>)

\* Variant of search_step that puts each new page in front of the list.
search_step_prepend(places, count, result) ==
    LET token == get_opt(result, "nextPageToken")
    IN  [ all_places |-> get(result, "places", << >>) \o places,
          request_count |-> count + 1,
          next_page_token |-> token,
          brk |-> ~Truthy(token) ]

\* Variant of search_step that stops after the second page.
search_step_capped(places, count, result) ==
    LET token == get_opt(result, "nextPageToken")
    IN  [ all_places |-> places \o get(result, "places", << >>),
          request_count |-> count + 1,
          next_page_token |-> token,
          brk |-> ~Truthy(token) \/ count + 1 >= 2 ]

\* The body of the try block after a successful post: count the request,
\* extend the accumulated list, take the token, decide whether to break.
search_step(places, count, result) ==
    LET token == get_opt(result, "nextPageToken")
    IN  [ all_places |-> places \o get(result, "places", << >>),
          request_count |-> count + 1,
          next_page_token |-> token,
          brk |-> ~Truthy(token) ]

\* Variant of the except clause that leaves the loop and keeps the pages
\* fetched so far.
handle_request_exception_salvage(e) ==
    [ out |-> <<"error_request">>, pc |-> "save", exit_status |-> None ]

\* The except clause: the message, the response text when the exception
\* carries a response, then sys.exit(1).
handle_request_exception(e) ==
    [ out |-> IF e = "HTTPError" THEN <<"error_request", "response_text">>
              ELSE <<"error_request">>,
      pc |-> "exited",
      exit_status |-> Some(1) ]

----------------------------------------------------------------------------
(* PlacesSearcher.save_to_csv                                              *)

EmptyDict == << >>

MapsUrlPrefix == "https://www.google.com/maps/place/?q=place_id:"

fieldnames_of(data_level) ==
    IF data_level = "id_only" THEN <<"place_id", "google_maps_url">>
    ELSE IF data_level = "basic" THEN
        <<"place_id", "name", "address", "latitude", "longitude", "types",
          "primary_type", "google_maps_url">>
    ELSE IF data_level = "advanced" THEN
        <<"place_id", "name", "address", "latitude", "longitude", "types",
          "primary_type", "google_maps_url", "rating", "user_ratings_total",
          "phone_national", "phone_international", "website",
          "business_status">>
    ELSE <<"place_id">>

\* Variant of basic_row with a placeholder for a missing address.
basic_row_placeholder(place) ==
    [ place_id |-> get(place, "id", ""),
      name |-> get(get(place, "displayName", EmptyDict), "text", ""),
      address |-> get(place, "formattedAddress", "N/A"),
      latitude |-> get(get(place, "location", EmptyDict), "latitude", ""),
      longitude |-> get(get(place, "location", EmptyDict), "longitude", ""),
      types |-> str_join(", ", get(place, "types", << >>)),
      primary_type |-> get(place, "primaryType", ""),
      google_maps_url |-> get(place, "googleMapsUri", "") ]

basic_row(place) ==
    [ place_id |-> get(place, "id", ""),
      name |-> get(get(place, "displayName", EmptyDict), "text", ""),
      address |-> get(place, "formattedAddress", ""),
      latitude |-> get(get(place, "location", EmptyDict), "latitude", ""),
      longitude |-> get(get(place, "location", EmptyDict), "longitude", ""),
      types |-> str_join(", ", get(place, "types", << >>)),
      primary_type |-> get(place, "primaryType", ""),
      google_maps_url |-> get(place, "googleMapsUri", "") ]

\* Variant of advanced_row that synthesizes a missing map link from the id.
advanced_row_synthesized(place) ==
    [ place_id |-> get(place, "id", ""),
      name |-> get(get(place, "displayName", EmptyDict), "text", ""),
      address |-> get(place, "formattedAddress", ""),
      latitude |-> get(get(place, "location", EmptyDict), "latitude", ""),
      longitude |-> get(get(place, "location", EmptyDict), "longitude", ""),
      types |-> str_join(", ", get(place, "types", << >>)),
      primary_type |-> get(place, "primaryType", ""),
      google_maps_url |-> get(place, "googleMapsUri",
                              MapsUrlPrefix \o get(place, "id", "")),
      rating |-> get(place, "rating", ""),
      user_ratings_total |-> get(place, "userRatingCount", ""),
      phone_national |-> get(place, "nationalPhoneNumber", ""),
      phone_international |-> get(place, "internationalPhoneNumber", ""),
      website |-> get(place, "websiteUri", ""),
      business_status |-> get(place, "businessStatus", "") ]

advanced_row(place) ==
    [ place_id |-> get(place, "id", ""),
      name |-> get(get(place, "displayName", EmptyDict), "text", ""),
      address |-> get(place, "formattedAddress", ""),
      latitude |-> get(get(place, "location", EmptyDict), "latitude", ""),
      longitude |-> get(get(place, "location", EmptyDict), "longitude", ""),
      types |-> str_join(", ", get(place, "types", << >>)),
      primary_type |-> get(place, "primaryType", ""),
      google_maps_url |-> get(place, "googleMapsUri", ""),
      rating |-> get(place, "rating", ""),
      user_ratings_total |-> get(place, "userRatingCount", ""),
      phone_national |-> get(place, "nationalPhoneNumber", ""),
      phone_international |-> get(place, "internationalPhoneNumber", ""),
      website |-> get(place, "websiteUri", ""),
      business_status |-> get(place, "businessStatus", "") ]

id_only_row(place) ==
    LET place_id == get(place, "id", "")
    IN  [ place_id |-> place_id,
          google_maps_url |-> MapsUrlPrefix \o place_id ]

\* The if/elif chain in the loop body. The local `row` is an optional value:
\* no branch binds it under an unrecognized data level, so it keeps the
\* binding (or the lack of one) it had before the iteration.
bind_row(data_level, place, row) ==
    IF data_level = "id_only" THEN Some(id_only_row(place))
    ELSE IF data_level = "basic" THEN Some(basic_row(place))
    ELSE IF data_level = "advanced" THEN Some(advanced_row(place))
    ELSE row

Range(s) == {s[i] : i \in 1..Len(s)}

\* csv.DictWriter.writerow: a key outside fieldnames is a ValueError, a
\* missing key is written as the empty string.
RECURSIVE write_rows(_, _, _, _, _)
write_rows(data_level, fieldnames, places, row, rows) ==
    IF places = << >> THEN [rows |-> rows, raised |-> None]
    ELSE LET r == bind_row(data_level, Head(places), row)
         IN  IF r = None
             THEN [rows |-> rows, raised |-> Some("UnboundLocalError")]
             ELSE IF ~(DOMAIN r[1] \subseteq Range(fieldnames))
             THEN [rows |-> rows, raised |-> Some("ValueError")]
             ELSE write_rows(data_level, fieldnames, Tail(places), r,
                     Append(rows, [c \in Range(fieldnames) |-> get(r[1], c, "")]))

\* Variant of save_to_csv without the early return on an empty list.
save_to_csv_unguarded(self, places, output_file) ==
    LET fieldnames == fieldnames_of(self.data_level)
        w == write_rows(self.data_level, fieldnames, places, None, << >>)
        f == [path |-> output_file, header |-> fieldnames,
              rows |-> w.rows, closed |-> TRUE]
    IN  IF w.raised # None
        THEN [file |-> Some(f), out |-> << >>, raised |-> w.raised]
        ELSE [file |-> Some(f), out |-> <<"saved", "total_places">>,
              raised |-> None]

\* The whole of save_to_csv: the file it leaves behind (None when it was
\* never opened), what it printed, and the exception that escaped, if any.
save_to_csv(self, places, output_file) ==
    IF places = << >>
    THEN [file |-> None, out |-> <<"no_places">>, raised |-> None]
    ELSE LET fieldnames == fieldnames_of(self.data_level)
             w == write_rows(self.data_level, fieldnames, places, None, << >>)
             f == [path |-> output_file, header |-> fieldnames,
                   rows |-> w.rows, closed |-> TRUE]
         IN  IF w.raised # None
             THEN [file |-> Some(f), out |-> << >>, raised |-> w.raised]
             ELSE [file |-> Some(f), out |-> <<"saved", "total_places">>,
                   raised |-> None]

----------------------------------------------------------------------------
(* Inputs: what the environment, the service and a caller can supply       *)

\* The values args.data_level can take (argparse choices).
Choices == {"id_only", "basic", "advanced"}

\* What a direct caller of PlacesSearcher can pass: any string.
CallerLevels == Choices \cup {"premium"}

\* A record as the service returns it with every field of the widest mask.
FullPlace(id) ==
    [ id |-> id,
      displayName |-> [text |-> "Cafe " \o id, languageCode |-> "en"],
      formattedAddress |-> "1 Main St",
      location |-> [latitude |-> "40.7130", longitude |-> "-74.0060"],
      types |-> <<"cafe", "food">>,
      primaryType |-> "cafe",
      googleMapsUri |-> "https://maps.google.com/?cid=" \o id,
      rating |-> "4.5",
      userRatingCount |-> "120",
      nationalPhoneNumber |-> "(212) 555-0100",
      internationalPhoneNumber |-> "+1 212-555-0100",
      websiteUri |-> "https://example.com/" \o id,
      businessStatus |-> "OPERATIONAL" ]

PlaceFields == DOMAIN FullPlace("p1")

Restrict(f, S) == [k \in S |-> f[k]]

\* FullPlace(id) with one nested key missing.
WithoutNested(id, outer, inner) ==
    [FullPlace(id) EXCEPT
        ![outer] = Restrict(FullPlace(id)[outer], DOMAIN FullPlace(id)[outer] \ {inner})]

\* The records a direct caller hands to save_to_csv: the full record, the
\* record with any one field absent, with any one nested key absent, with
\* only one field present, and the empty record; a second full record and a
\* second record without a map URI tell neighbouring rows apart.
PlaceUniverse ==
    {FullPlace("p1"), FullPlace("p2"), EmptyDict}
    \cup {Restrict(FullPlace("p1"), PlaceFields \ {f}) : f \in PlaceFields}
    \cup {Restrict(FullPlace("p1"), {f}) : f \in PlaceFields}
    \cup {Restrict(FullPlace("p2"), PlaceFields \ {"googleMapsUri"})}
    \cup {WithoutNested("p1", "displayName", "text"),
          WithoutNested("p1", "location", "latitude"),
          WithoutNested("p1", "location", "longitude")}

RECURSIVE SeqsUpTo(_, _)
SeqsUpTo(S, n) ==
    IF n = 0 THEN {<< >>}
    ELSE LET shorter == SeqsUpTo(S, n - 1)
         IN  shorter \cup {Append(s, x) : s \in shorter, x \in S}

PlaceLists == SeqsUpTo(PlaceUniverse, MaxPlaces)

\* The pages the service answers with: no record, one, or two in either order.
PlaceA == FullPlace("p1")

PlaceB == Restrict(FullPlace("p2"), {"id", "displayName"})

Pages == {<< >>, <<PlaceB>>, <<PlaceA, PlaceB>>, <<PlaceB, PlaceA>>}

\* The continuation tokens a response can carry; "" is a token the loop
\* treats as none.
Tokens == {"", "tokA", "tokB"}

\* A parsed success response: "places" and "nextPageToken" are both optional.
Results ==
    {("places" :> page) @@ ("nextPageToken" :> t) : page \in Pages, t \in Tokens}
    \cup {("places" :> page) : page \in Pages}
    \cup {("nextPageToken" :> t) : t \in Tokens}
    \cup {EmptyDict}

\* requests.exceptions.RequestException raised by post or raise_for_status.
TransportErrors == {"ConnectionError", "Timeout", "HTTPError"}

\* The values of --category: absent, or a comma separated list.
Categories == {None, Some(<<"restaurant", ",", " ", "cafe">>)}

\* The values of GOOGLE_MAPS_API_KEY: unset, empty, set.
ApiKeys == {None, Some(""), Some("KEY")}

----------------------------------------------------------------------------
(* main()                                                                  *)

\* t.strip() on a token sequence: drop the blank tokens at both ends.
RECURSIVE lstrip(_)
lstrip(t) == IF t # << >> /\ Head(t) = " " THEN lstrip(Tail(t)) ELSE t

RECURSIVE rstrip(_)
rstrip(t) ==
    IF t # << >> /\ t[Len(t)] = " " THEN rstrip(SubSeq(t, 1, Len(t) - 1)) ELSE t

strip(t) == replace_empty(rstrip(lstrip(t)), "")

\* include_types = None, or [t.strip() for t in args.category.split(',')]
include_types_of(category) ==
    IF ListTruthy(category)
    THEN LET parts == split(category[1], ",")
         IN  Some([i \in 1..Len(parts) |-> strip(parts[i])])
    ELSE None

\* args.output, or the generated places_<timestamp>.csv
output_file_of(output) ==
    IF output = None THEN "places_TIMESTAMP.csv" ELSE output[1]

\* Variant of the credential check that only notices an unset variable.
credential_missing_unset_only(key) == key = None

\* `if not api_key`
credential_missing(key) == ~Truthy(key)

ArgSets(levels) ==
    [ lat : {"40.7128"}, lng : {"-74.0060"}, radius : {500},
      category : Categories, output : {None}, data_level : levels,
      debug : {FALSE} ]

InitLocals ==
    /\ searcher = None
    /\ cost_per_request = None
    /\ all_places = << >>
    /\ next_page_token = None
    /\ request_count = 0
    /\ requests = << >>
    /\ responses = << >>
    /\ csvfile = None
    /\ stdout = << >>
    /\ total_cost = None
    /\ raised = None
    /\ exit_status = None

\* The process after parse_args() and os.getenv().
Init ==
    /\ pc = "main"
    /\ api_key \in ApiKeys
    /\ args \in ArgSets(Choices)
    /\ InitLocals

\* Lines 431-433: the credential check.
CheckCredential ==
    /\ pc = "main"
    /\ IF credential_missing(api_key)
       THEN /\ stdout' = Append(stdout, "error_no_key")
            /\ exit_status' = Some(1)
            /\ pc' = "exited"
       ELSE /\ pc' = "construct"
            /\ UNCHANGED <<stdout, exit_status>>
    /\ UNCHANGED <<api_key, args, searcher, cost_per_request, all_places,
                   next_page_token, request_count, requests, responses,
                   csvfile, total_cost, raised>>

\* Lines 445-463: the searcher, the cost per request, the banner.
Construct ==
    /\ pc = "construct"
    /\ LET s == PlacesSearcher(api_key[1], args.data_level, args.debug)
       IN  /\ searcher' = Some(s)
           /\ cost_per_request' = Some(calculate_request_cost(s))
    /\ stdout' = stdout \o <<"banner", "searching">>
    /\ pc' = "search"
    /\ UNCHANGED <<api_key, args, all_places, next_page_token, request_count,
                   requests, responses, csvfile, total_cost, raised, exit_status>>

\* Lines 168-206: build the payload and post it.
SendRequest ==
    /\ pc = "search"
    /\ Len(requests) < MaxRequests
    /\ requests' = Append(requests,
          [ url |-> searcher[1].base_url,
            headers |-> searcher[1].headers,
            json |-> build_payload(args.lat, args.lng, args.radius,
                                   include_types_of(args.category),
                                   next_page_token),
            timeout |-> timeout ])
    /\ pc' = "await"
    /\ UNCHANGED <<api_key, args, searcher, cost_per_request, all_places,
                   next_page_token, request_count, responses, csvfile, stdout,
                   total_cost, raised, exit_status>>

\* Lines 216-242: the post returned a success status and a parsed body.
ReceiveResponse ==
    /\ pc = "await"
    /\ \E result \in Results :
          LET st == search_step(all_places, request_count, result)
          IN  /\ responses' = Append(responses, [kind |-> "ok", result |-> result])
              /\ all_places' = st.all_places
              /\ request_count' = st.request_count
              /\ next_page_token' = st.next_page_token
              /\ stdout' = stdout \o <<"fetched_page",
                              IF st.brk THEN "no_more_pages" ELSE "token_found">>
              /\ pc' = IF st.brk THEN "save" ELSE "search"
    /\ UNCHANGED <<api_key, args, searcher, cost_per_request, requests,
                   csvfile, total_cost, raised, exit_status>>

\* Lines 244-248: the post or raise_for_status raised a RequestException.
RequestFails ==
    /\ pc = "await"
    /\ \E e \in TransportErrors :
          LET h == handle_request_exception(e)
          IN  /\ responses' = Append(responses, [kind |-> e, result |-> EmptyDict])
              /\ stdout' = stdout \o h.out
              /\ pc' = h.pc
              /\ exit_status' = h.exit_status
    /\ UNCHANGED <<api_key, args, searcher, cost_per_request, all_places,
                   next_page_token, request_count, requests, csvfile,
                   total_cost, raised>>

\* Line 472: searcher.save_to_csv(all_places, args.output); an exception
\* that escapes it ends the process with status 1.
SaveResults ==
    /\ pc = "save"
    /\ LET r == save_to_csv(searcher[1], all_places, output_file_of(args.output))
       IN  /\ csvfile' = r.file
           /\ stdout' = stdout \o r.out
           /\ raised' = r.raised
           /\ IF r.raised # None
              THEN pc' = "exited" /\ exit_status' = Some(1)
              ELSE pc' = "summary" /\ UNCHANGED exit_status
    /\ UNCHANGED <<api_key, args, searcher, cost_per_request, all_places,
                   next_page_token, request_count, requests, responses,
                   total_cost>>

\* Lines 474-485: the total cost and the run summary; main returns.
PrintSummary ==
    /\ pc = "summary"
    /\ total_cost' = Some(cost_per_request[1] * request_count)
    /\ stdout' = Append(stdout, "summary")
    /\ exit_status' = Some(0)
    /\ pc' = "exited"
    /\ UNCHANGED <<api_key, args, searcher, cost_per_request, all_places,
                   next_page_token, request_count, requests, responses,
                   csvfile, raised>>

Next ==
    \/ CheckCredential
    \/ Construct
    \/ SendRequest
    \/ ReceiveResponse
    \/ RequestFails
    \/ SaveResults
    \/ PrintSummary

Spec == Init /\ [][Next]_vars

----------------------------------------------------------------------------
(* The client used directly, without main(): a caller constructs a         *)
(* PlacesSearcher with a data level of its choice, asks for the cost and   *)
(* exports a record list.                                                  *)

InitClient ==
    /\ pc = "caller"
    /\ api_key = Some("KEY")
    /\ args \in {a \in ArgSets(CallerLevels) : a.category = None}
    /\ InitLocals

\* PlacesSearcher(api_key, data_level)
ClientConstruct ==
    /\ pc = "caller"
    /\ searcher' = Some(PlacesSearcher(api_key[1], args.data_level, args.debug))
    /\ pc' = "constructed"
    /\ UNCHANGED <<api_key, args, cost_per_request, all_places, next_page_token,
                   request_count, requests, responses, csvfile, stdout,
                   total_cost, raised, exit_status>>

\* searcher.calculate_request_cost()
ClientCost ==
    /\ pc = "constructed"
    /\ cost_per_request' = Some(calculate_request_cost(searcher[1]))
    /\ pc' = "costed"
    /\ UNCHANGED <<api_key, args, searcher, all_places, next_page_token,
                   request_count, requests, responses, csvfile, stdout,
                   total_cost, raised, exit_status>>

\* searcher.save_to_csv(places, output_file)
ClientSave ==
    /\ pc = "costed"
    /\ \E places \in PlaceLists :
          LET r == save_to_csv(searcher[1], places, output_file_of(args.output))
          IN  /\ all_places' = places
              /\ csvfile' = r.file
              /\ stdout' = stdout \o r.out
              /\ raised' = r.raised
    /\ pc' = "saved"
    /\ UNCHANGED <<api_key, args, searcher, cost_per_request, next_page_token,
                   request_count, requests, responses, total_cost, exit_status>>

NextClient ==
    \/ ClientConstruct
    \/ ClientCost
    \/ ClientSave

SpecClient == InitClient /\ [][NextClient]_vars

----------------------------------------------------------------------------
(* Vocabulary of the properties                                            *)

\* A response that carries no continuation token: the key is absent, or its
\* value is the empty string (which the service's JSON encoding treats as
\* the absent value).
NoToken(result) ==
    "nextPageToken" \notin DOMAIN result \/ result["nextPageToken"] = ""

Succeeded(k) == responses[k].kind = "ok"

HasToken(k) == Succeeded(k) /\ ~NoToken(responses[k].result)

\* The 'places' lists of responses 1..n, concatenated in the order received.
RECURSIVE PagesUpTo(_)
PagesUpTo(n) ==
    IF n = 0 THEN << >>
    ELSE PagesUpTo(n - 1)
         \o (IF "places" \in DOMAIN responses[n].result
             THEN responses[n].result["places"] ELSE << >>)

\* search_nearby has returned to main.
Returned ==
    \/ pc \in {"save", "summary"}
    \/ pc = "exited" /\ responses # << >> /\ Succeeded(Len(responses))

\* search_nearby is running.
InLoop == pc \in {"search", "await"}

Printed(tag) == \E i \in 1..Len(stdout) : stdout[i] = tag

\* save_to_csv has been called.
ExporterCalled ==
    csvfile # None \/ raised # None \/ Printed("no_places") \/ Printed("saved")

----------------------------------------------------------------------------
(* C1: when the N-th response is the first one without a continuation      *)
(* token, search_nearby issues exactly N requests and returns the 'places' *)
(* lists of responses 1..N concatenated in the order received, with the    *)
(* request count N; and it goes on while every response carries a token.   *)
C1_PaginationResult ==
    /\ Returned =>
          LET N == Len(responses)
          IN  /\ \A k \in 1..N : Succeeded(k)
              /\ \A k \in 1..(N - 1) : HasToken(k)
              /\ NoToken(responses[N].result)
              /\ Len(requests) = N
              /\ request_count = N
              /\ all_places = PagesUpTo(N)
    /\ InLoop => \A k \in 1..Len(responses) : HasToken(k)

C1_Witness ==
    /\ pc = "save"
    /\ Len(responses) = 3
    /\ responses[1].result = ("places" :> <<PlaceA, PlaceB>>) @@ ("nextPageToken" :> "tokA")
    /\ responses[2].result = ("places" :> <<PlaceB>>) @@ ("nextPageToken" :> "tokB")
    /\ responses[3].result = ("places" :> <<PlaceB, PlaceA>>)
    /\ all_places = <<PlaceA, PlaceB, PlaceB, PlaceB, PlaceA>>
    /\ request_count = 3

(* C2: a transport failure on page k ends the run with a non-zero status,  *)
(* with no further request, without calling the exporter and without the   *)
(* run summary, also when earlier pages had been accumulated.              *)
C2_FailureAborts ==
    \A k \in 1..Len(responses) :
        ~Succeeded(k) =>
            /\ k = Len(responses)
            /\ Len(requests) = k
            /\ pc = "exited"
            /\ exit_status = Some(1)
            /\ ~ExporterCalled
            /\ ~Printed("summary")
            /\ total_cost = None

C2_Witness ==
    /\ Len(responses) = 2
    /\ Succeeded(1)
    /\ responses[2].kind = "Timeout"
    /\ all_places # << >>
    /\ pc = "exited"

(* C3: with the credential missing or empty the process reports an error   *)
(* and exits non-zero before any request, before a PlacesSearcher exists   *)
(* and before any file is opened; a request is only ever issued after the  *)
(* credential check has passed.                                            *)
C3_CredentialFirst ==
    /\ (api_key = None \/ api_key = Some("")) =>
          /\ requests = << >>
          /\ searcher = None
          /\ csvfile = None
          /\ pc \in {"main", "exited"}
          /\ pc = "exited" => exit_status = Some(1) /\ stdout = <<"error_no_key">>
    /\ requests # << >> =>
          /\ api_key # None /\ api_key # Some("")
          /\ pc # "main"
          /\ ~Printed("error_no_key")

C3_Witness ==
    /\ api_key = Some("")
    /\ pc = "exited"
    /\ exit_status = Some(1)

(* C4: after a successful fetch that accumulated no record, save_to_csv    *)
(* opens no file and raises nothing, and the run goes on to print the run  *)
(* summary and exits with success.                                         *)
C4_EmptyResult ==
    (Returned /\ all_places = << >> /\ pc # "save") =>
        /\ csvfile = None
        /\ raised = None
        /\ Printed("no_places")
        /\ pc = "summary" => ENABLED PrintSummary
        /\ pc = "exited" => exit_status = Some(0) /\ Printed("summary")

C4_Witness ==
    /\ pc = "exited"
    /\ exit_status = Some(0)
    /\ Len(responses) = 2
    /\ all_places = << >>
    /\ Printed("no_places")


----------------------------------------------------------------------------
(* Properties of the client's pure operations                              *)

\* The per-request prices the help text of main() states.
HelpCostIdOnly == 17

HelpCostBasic == 17

HelpCostAdvanced == 47

\* The price of the field named by a "places.<name>" entry of a field list.
PriceOf(entry) ==
    IF entry[2] \in DOMAIN FIELD_COSTS THEN FIELD_COSTS[entry[2]] ELSE 0

CostWasComputed == cost_per_request # None /\ searcher # None

(* C5: in thousandths of a dollar, calculate_request_cost returns the base *)
(* price plus the table prices of exactly the fields of the data level's   *)
(* field mask: 17 for id_only and for basic, and 47 for advanced, the      *)
(* figures the help text states.                                           *)
C5_RequestCost ==
    (CostWasComputed /\ searcher[1].data_level \in Choices) =>
        LET level == searcher[1].data_level
            listed == mask_fields(level)
        IN  /\ cost_per_request[1] =
                  BASE_NEARBY_SEARCH_COST
                  + SeqSum([i \in 1..Len(listed) |-> PriceOf(listed[i])])
            /\ level = "id_only" => cost_per_request[1] = HelpCostIdOnly
            /\ level = "basic" => cost_per_request[1] = HelpCostBasic
            /\ level = "advanced" => cost_per_request[1] = HelpCostAdvanced
            /\ level = "id_only" => cost_per_request[1] = BASE_NEARBY_SEARCH_COST
            /\ level = "basic" => cost_per_request[1] = BASE_NEARBY_SEARCH_COST

C5_Witness ==
    /\ pc = "costed"
    /\ searcher[1].data_level = "advanced"
    /\ cost_per_request = Some(47)

SaveReturned == pc = "saved"

UnrecognizedLevel == searcher # None /\ searcher[1].data_level \notin Choices

(* C6: an unrecognized data level is benign everywhere: the constructed    *)
(* client has the field mask and the cost of id_only, and save_to_csv on a *)
(* non-empty record list raises nothing and writes a header and one data   *)
(* row per record.                                                         *)
C6_UnknownLevelBenign ==
    UnrecognizedLevel =>
        /\ searcher[1].headers["X-Goog-FieldMask"] = get_field_mask("id_only")
        /\ CostWasComputed => cost_per_request[1] = HelpCostIdOnly
        /\ (SaveReturned /\ all_places # << >>) =>
              /\ raised = None
              /\ csvfile # None
              /\ csvfile[1].header # << >>
              /\ Len(csvfile[1].rows) = Len(all_places)

\* The column lists of section "Define CSV columns based on data level".
ColumnsOf(level) ==
    CASE level = "id_only" -> <<"place_id", "google_maps_url">>
      [] level = "basic" ->
            <<"place_id", "name", "address", "latitude", "longitude", "types",
              "primary_type", "google_maps_url">>
      [] level = "advanced" ->
            <<"place_id", "name", "address", "latitude", "longitude", "types",
              "primary_type", "google_maps_url", "rating", "user_ratings_total",
              "phone_national", "phone_international", "website",
              "business_status">>

\* The record field a plain column is read from.
PlainSource ==
    [ place_id |-> "id", address |-> "formattedAddress",
      primary_type |-> "primaryType", rating |-> "rating",
      user_ratings_total |-> "userRatingCount",
      phone_national |-> "nationalPhoneNumber",
      phone_international |-> "internationalPhoneNumber",
      website |-> "websiteUri", business_status |-> "businessStatus" ]

\* The value a row must hold in a column other than the map link.
ExpectedCell(place, col) ==
    IF col \in DOMAIN PlainSource
    THEN IF PlainSource[col] \in DOMAIN place THEN place[PlainSource[col]] ELSE ""
    ELSE IF col = "name"
    THEN IF "displayName" \in DOMAIN place /\ "text" \in DOMAIN place["displayName"]
         THEN place["displayName"]["text"] ELSE ""
    ELSE IF col \in {"latitude", "longitude"}
    THEN IF "location" \in DOMAIN place /\ col \in DOMAIN place["location"]
         THEN place["location"][col] ELSE ""
    ELSE IF "types" \notin DOMAIN place \/ place["types"] = << >> THEN ""
    ELSE IF Len(place["types"]) = 1 THEN place["types"][1]
    ELSE place["types"][1] \o ", " \o place["types"][2]

(* C7: under a recognized data level and a non-empty record list,          *)
(* save_to_csv writes the level's fixed column list as the header and one  *)
(* row per record in input order, each with exactly those columns; an      *)
(* absent field gives the empty string in its column and never a failure   *)
(* or a missing row.                                                       *)
C7_ExportRows ==
    (SaveReturned /\ ~UnrecognizedLevel /\ all_places # << >>) =>
        LET cols == ColumnsOf(searcher[1].data_level)
        IN  /\ raised = None
            /\ csvfile # None
            /\ csvfile[1].header = cols
            /\ Len(csvfile[1].rows) = Len(all_places)
            /\ \A i \in 1..Len(all_places) :
                  /\ DOMAIN csvfile[1].rows[i] = Range(cols)
                  /\ \A c \in Range(cols) \ {"google_maps_url"} :
                        csvfile[1].rows[i][c] = ExpectedCell(all_places[i], c)

C7_Witness ==
    /\ SaveReturned
    /\ searcher[1].data_level = "basic"
    /\ Len(all_places) = 2
    /\ all_places[1] = Restrict(FullPlace("p1"), PlaceFields \ {"formattedAddress"})
    /\ all_places[2] = FullPlace("p2")
    /\ csvfile # None
    /\ Len(csvfile[1].rows) = 2
    /\ csvfile[1].rows[1]["address"] = ""
    /\ csvfile[1].rows[2]["place_id"] = "p2"

\* The rows save_to_csv wrote under a data level with a map-link column.
MapLinkExported ==
    /\ SaveReturned
    /\ raised = None
    /\ csvfile # None
    /\ \E i \in 1..Len(csvfile[1].header) : csvfile[1].header[i] = "google_maps_url"

SynthesizedLink(place) ==
    "https://www.google.com/maps/place/?q=place_id:"
    \o (IF "id" \in DOMAIN place THEN place["id"] ELSE "")

(* C8 as stated: whenever the column list has the map-link column, a       *)
(* record without googleMapsUri gets a link synthesized from its id, and a *)
(* record with googleMapsUri gets that value.                              *)
C8_Original ==
    MapLinkExported =>
        \A i \in 1..Len(all_places) :
            csvfile[1].rows[i]["google_maps_url"] =
                IF "googleMapsUri" \in DOMAIN all_places[i]
                THEN all_places[i]["googleMapsUri"]
                ELSE SynthesizedLink(all_places[i])

(* C8 amended: under id_only the map link is always synthesized from the   *)
(* record's id, whether or not the record carries googleMapsUri; under     *)
(* basic and advanced it is the record's googleMapsUri when supplied and   *)
(* the empty string when absent.                                           *)
C8_MapLink ==
    MapLinkExported =>
        \A i \in 1..Len(all_places) :
            csvfile[1].rows[i]["google_maps_url"] =
                IF searcher[1].data_level = "id_only"
                THEN SynthesizedLink(all_places[i])
                ELSE IF "googleMapsUri" \in DOMAIN all_places[i]
                THEN all_places[i]["googleMapsUri"]
                ELSE ""

C8_Witness ==
    /\ MapLinkExported
    /\ searcher[1].data_level = "advanced"
    /\ Len(all_places) = 2
    /\ "googleMapsUri" \notin DOMAIN all_places[1]
    /\ "id" \in DOMAIN all_places[1]
    /\ "googleMapsUri" \in DOMAIN all_places[2]
    /\ csvfile[1].rows[1]["google_maps_url"] = ""
    /\ csvfile[1].rows[2]["google_maps_url"] = all_places[2]["googleMapsUri"]


----------------------------------------------------------------------------
(* Properties of the request sequence                                      *)

\* A payload without its page token: the part that must not change.
FixedPart(payload) == Restrict(payload, DOMAIN payload \ {"pageToken"})

(* C9: requests go out one at a time, request k+1 only after response k    *)
(* has been received and its records appended; the first request has no    *)
(* page token; request k+1 carries exactly the token of response k; and    *)
(* location, radius, included types, rank preference DISTANCE and the page *)
(* size cap 20 are the same in every request.                              *)
C9_RequestSequence ==
    /\ Len(requests) - Len(responses) \in {0, 1}
    /\ Len(requests) = Len(responses) + 1 <=> pc = "await"
    /\ pc = "await" =>
          /\ request_count = Len(responses)
          /\ all_places = PagesUpTo(Len(responses))
    /\ requests # << >> => "pageToken" \notin DOMAIN requests[1].json
    /\ \A k \in 1..(Len(requests) - 1) :
          /\ HasToken(k)
          /\ "pageToken" \in DOMAIN requests[k + 1].json
          /\ requests[k + 1].json["pageToken"] = responses[k].result["nextPageToken"]
    /\ \A k \in 1..Len(requests) :
          LET payload == requests[k].json
          IN  /\ FixedPart(payload) = FixedPart(requests[1].json)
              /\ payload["locationRestriction"]["circle"]["center"]
                    = [latitude |-> args.lat, longitude |-> args.lng]
              /\ payload["locationRestriction"]["circle"]["radius"] = args.radius
              /\ payload["rankPreference"] = "DISTANCE"
              /\ payload["maxResultCount"] = 20
              /\ args.category = None <=> "includedTypes" \notin DOMAIN payload
              /\ args.category # None =>
                    payload["includedTypes"] = <<"restaurant", "cafe">>

C9_Witness ==
    /\ Len(requests) = 3
    /\ Len(responses) = 2
    /\ responses[1].result["nextPageToken"] = "tokA"
    /\ responses[2].result["nextPageToken"] = "tokB"
    /\ requests[3].json["pageToken"] = "tokB"
    /\ "includedTypes" \in DOMAIN requests[3].json

\* Every response so far succeeded and carried a non-empty token.
AllCarryTokens == \A k \in 1..Len(responses) : HasToken(k)

RunEnded == pc = "exited"

(* C10: the loop has no page cap: after k successful responses that all    *)
(* carry a non-empty token the (k+1)-th request is issued, so as long as   *)
(* every response carries a token search_nearby does not return, the       *)
(* exporter is not reached and no summary is printed; the run ends only    *)
(* after a response without a token or a failed request.                   *)
C10_NoPageCap ==
    /\ (responses # << >> /\ AllCarryTokens) =>
          /\ InLoop
          /\ pc = "await" => Len(requests) = Len(responses) + 1
          /\ (pc = "search" /\ Len(requests) < MaxRequests) => ENABLED SendRequest
          /\ ~ExporterCalled
          /\ ~Printed("summary")
          /\ exit_status = None
    /\ (Returned \/ (RunEnded /\ requests # << >>)) =>
          \/ ~Succeeded(Len(responses))
          \/ NoToken(responses[Len(responses)].result)

C10_Witness ==
    /\ Len(responses) = MaxRequests
    /\ AllCarryTokens
    /\ pc = "search"
    /\ request_count = MaxRequests

====
